---- MODULE Spec2Model ----
(***************************************************************************)
(* Customer analytics platform: the API handler                            *)
(* (aws/lambda/customer-analytics-api) and the data processor              *)
(* (aws/lambda/customer-analytics-processor) over the DynamoDB session     *)
(* table and the S3 metrics bucket.                                        *)
(*                                                                         *)
(* Amounts are written in thousandths (cart_value 33.333 is 33333).        *)
(* Python floats are IEEE-754 doubles; a double is held exactly as a       *)
(* fixed-point number, a little-endian sequence of NumLimbs limbs of       *)
(* LimbBits bits of which the low FracLimbs limbs are the fraction.       *)
(* Every step rounds to MantBits significant bits, ties to even, as       *)
(* the hardware does.  A value rounded by round(x, 2) is written in        *)
(* hundredths (33.33 is 3333), which is the number json.dumps prints.      *)
(***************************************************************************)
EXTENDS Integers, Sequences, FiniteSets, TLC

----------------------------------------------------------------------------
(* Bounds of the model *)

\* longest table content the numeric specification enumerates
MaxBatch == 3

(* Program constants *)

\* table.scan(Limit=100)
ScanLimit == 100

----------------------------------------------------------------------------
(* Exact fixed-point arithmetic on limb sequences *)

\* significant bits of a Python float
MantBits == 53
\* bits of a limb; limbs of a fixed-point number (the arithmetic below is
\* written out for five), and how many of them are the fraction
LimbBits == 20
NumLimbs == 5
FracLimbs == 4

LimbBase == 2^LimbBits

Limbs == 1..NumLimbs

BigZero == [i \in Limbs |-> 0]

\* True of every value.  A definition is evaluated where its value is first
\* needed, which can be deep inside the evaluation of another; written as a
\* guard, Evaluated(v) has v evaluated there, so that the steps of a
\* computation are evaluated one after the other.
Evaluated(v) == v = v

\* the integer n (below LimbBase) as a fixed-point number
FixOfNat(n) == [i \in Limbs |-> IF i = FracLimbs + 1 THEN n ELSE 0]

\* a + b: the limbs are added from the lowest up, each with the carry of the
\* one below
BigAdd(a, b) ==
    LET s1 == a[1] + b[1]
        s2 == a[2] + b[2] + s1 \div LimbBase
        s3 == a[3] + b[3] + s2 \div LimbBase
        s4 == a[4] + b[4] + s3 \div LimbBase
        s5 == a[5] + b[5] + s4 \div LimbBase
    IN  <<s1 % LimbBase, s2 % LimbBase, s3 % LimbBase, s4 % LimbBase,
          s5 % LimbBase>>

\* a * m, m a small integer
BigMulSmall(a, m) ==
    LET p1 == a[1] * m
        p2 == a[2] * m + p1 \div LimbBase
        p3 == a[3] * m + p2 \div LimbBase
        p4 == a[4] * m + p3 \div LimbBase
        p5 == a[5] * m + p4 \div LimbBase
    IN  <<p1 % LimbBase, p2 % LimbBase, p3 % LimbBase, p4 % LimbBase,
          p5 % LimbBase>>

\* quotient and remainder of a divided by the small integer c: long division
\* from the highest limb down, each limb with the remainder of the one above
BigDivSmall(a, c) ==
    LET d5 == a[5]
        d4 == (d5 % c) * LimbBase + a[4]
        d3 == (d4 % c) * LimbBase + a[3]
        d2 == (d3 % c) * LimbBase + a[2]
        d1 == (d2 % c) * LimbBase + a[1]
        d  == <<d5, d4, d3, d2, d1>>
    IN  [q |-> <<d[5] \div c, d[4] \div c, d[3] \div c, d[2] \div c, d[1] \div c>>,
         r |-> d[5] % c]

\* number of significant bits of x, x below LimbBase
SmallBitLen(x) == Cardinality({k \in 0..(LimbBits - 1) : 2^k <= x})

\* number of significant bits of a
BitLen(a) ==
    LET used == {i \in Limbs : a[i] # 0}
    IN  IF used = {} THEN 0
        ELSE LET top == CHOOSE i \in used : \A j \in used : j <= i
             IN  LimbBits * (top - 1) + SmallBitLen(a[top])

\* bit p of a (bit 0 is the lowest)
BigBit(a, p) == (a[(p \div LimbBits) + 1] \div 2^(p % LimbBits)) % 2

\* whether a bit below bit p of a is set
LowBitsSet(a, p) ==
    \/ \E i \in Limbs : i <= p \div LimbBits /\ a[i] # 0
    \/ a[(p \div LimbBits) + 1] % 2^(p % LimbBits) # 0

\* a with the bits below bit p cleared
ClearLow(a, p) ==
    [i \in Limbs |-> IF i <= p \div LimbBits THEN 0
                     ELSE IF i = (p \div LimbBits) + 1
                          THEN a[i] - (a[i] % 2^(p % LimbBits))
                          ELSE a[i]]

BigPow2(p) ==
    [i \in Limbs |-> IF i = (p \div LimbBits) + 1 THEN 2^(p % LimbBits) ELSE 0]

----------------------------------------------------------------------------
(* Python float arithmetic *)

\* the double nearest to a + (a fraction of the last place, not zero iff
\* sticky): round to nearest, ties to even
RoundToDouble(a, sticky) ==
    CASE Evaluated(a) ->
        LET n == BitLen(a)
            p == n - MantBits
        IN  IF p <= 0 THEN a
            ELSE LET half == BigBit(a, p - 1) = 1
                     rest == sticky \/ LowBitsSet(a, p - 1)
                     odd  == BigBit(a, p) = 1
                     t    == ClearLow(a, p)
                 IN  IF half /\ (rest \/ odd) THEN BigAdd(t, BigPow2(p)) ELSE t

\* float(Decimal) of an amount given in thousandths
FloatOfMilli(m) ==
    LET d == BigDivSmall(FixOfNat(m), 1000)
    IN  CASE Evaluated(d) -> RoundToDouble(d.q, d.r # 0)

\* x + y on floats
FAdd(x, y) ==
    CASE Evaluated(x) /\ Evaluated(y) -> RoundToDouble(BigAdd(x, y), FALSE)

\* x / c, x a float and c a positive int
FDivInt(x, c) ==
    LET d == BigDivSmall(x, c)
    IN  CASE Evaluated(x) /\ Evaluated(d) -> RoundToDouble(d.q, d.r # 0)

\* a / b on ints (true division)
IntTrueDiv(a, b) == FDivInt(FixOfNat(a), b)

\* x * m, x a float and m an int
FMulInt(x, m) ==
    CASE Evaluated(x) -> RoundToDouble(BigMulSmall(x, m), FALSE)

\* round(x, 2) in hundredths: the exact binary value of x rounded to the
\* nearest hundredth, ties to even
Round2(x) ==
    LET y     == BigMulSmall(x, 100)
        whole == y[FracLimbs + 1]
        k     == LimbBits * FracLimbs
        half  == BigBit(y, k - 1) = 1
        rest  == LowBitsSet(y, k - 1)
    IN  CASE Evaluated(x) /\ Evaluated(y) ->
            IF half /\ (rest \/ whole % 2 = 1) THEN whole + 1 ELSE whole

----------------------------------------------------------------------------
(* The table, the clock and the events *)

VARIABLES
    store,      \* items of the DynamoDB table, in the order a scan returns them
    now,        \* the clock, in ticks; TicksPerSecond ticks make a second
    req,        \* the last invocation since the table was written: which
                \* handler, its event, which of its outside calls succeed,
                \* and for the processor the content of the object it reads
    resp,       \* what that invocation returned
    calls,      \* the outside calls that invocation made, in order
    bucket,     \* objects of the metrics bucket: key -> body
    pending,    \* asynchronous invocations accepted and not yet delivered
    dispatched, \* number of asynchronous invocations accepted so far
    prevMetrics,\* the /metrics snapshot before the last one, when both were
                \* computed one after the other with no write between
    rateIn,     \* (conversions, total_sessions) given to the rate expression
    rateOut,    \* its value
    running,    \* invocations in progress at the same time: how far each is
                \* and what it holds
    script      \* a run of a setup script: where it is and what it holds

vars == <<store, now, req, resp, calls, bucket, pending, dispatched,
          prevMetrics, rateIn, rateOut, running, script>>

\* longest table content of the system specification
MaxStore == 1
\* last tick of the clock
MaxClock == 2
\* ticks in one second (the key of a published snapshot is cut to seconds)
TicksPerSecond == 2
\* asynchronous invocations the API accepts
MaxDispatch == 1
\* longest table content of the scan specification
MaxScanStore == 102

\* invocations in progress at the same time
MaxInvocations == 2

None == [none |-> TRUE]

Invocations == 1..MaxInvocations

Idle == [phase |-> "idle"]

NoneRunning == [id \in Invocations |-> Idle]

Min(a, b) == IF a < b THEN a ELSE b

\* dict.get(k, default)
Get(d, k, default) == IF k \in DOMAIN d THEN d[k] ELSE default

\* the attributes an item may carry beside its key: converted true, false
\* or absent, cart_value (in thousandths) a number or absent
NumericShapes ==
    { [converted |-> TRUE, cart_value |-> [N |-> 2675]],
      [converted |-> TRUE, cart_value |-> [N |-> 33333]],
      [converted |-> TRUE, cart_value |-> [N |-> 33334]],
      [converted |-> TRUE, cart_value |-> [N |-> 50070]],
      [converted |-> TRUE, cart_value |-> [N |-> 150000]],
      [converted |-> TRUE],
      [converted |-> FALSE, cart_value |-> [N |-> 0]],
      [converted |-> FALSE, cart_value |-> [N |-> 10090]],
      [cart_value |-> [N |-> 150000]],
      <<>> }

\* the same, with a cart_value that is no number among them
SystemShapes ==
    { [converted |-> TRUE, cart_value |-> [N |-> 150000]],
      [converted |-> FALSE, cart_value |-> [N |-> 10]],
      [converted |-> TRUE, cart_value |-> [S |-> "n/a"]],
      <<>> }

Keys == {<<"c1", 1>>, <<"c1", 2>>, <<"c2", 1>>}

Item(key, shape) ==
    [k \in {"customer_id", "session_timestamp"} \cup DOMAIN shape |->
        IF k = "customer_id" THEN key[1]
        ELSE IF k = "session_timestamp" THEN key[2]
        ELSE shape[k]]

KeyOf(item) == <<item.customer_id, item.session_timestamp>>

\* a scan that pages through the whole table, which the code's does not
ScanAllPages(tbl, limit) == tbl

\* table.scan(Limit=limit)['Items']: one page, no follow-up of LastEvaluatedKey
Scan(tbl, limit) == SubSeq(tbl, 1, Min(Len(tbl), limit))

\* a query that gives the partition's items in the order of a scan, which
\* the table's does not
QueryInScanOrder(tbl, cid) == SelectSeq(tbl, LAMBDA item : item.customer_id = cid)

\* table.query(KeyConditionExpression='customer_id = :cid'): the items of the
\* partition, by ascending sort key
RECURSIVE SortByTimestamp(_)
SortByTimestamp(items) ==
    IF items = {} THEN <<>>
    ELSE LET first == CHOOSE x \in items :
                          \A y \in items : x.session_timestamp <= y.session_timestamp
         IN  <<first>> \o SortByTimestamp(items \ {first})

Query(tbl, cid) ==
    SortByTimestamp({tbl[i] : i \in {j \in 1..Len(tbl) : tbl[j].customer_id = cid}})

----------------------------------------------------------------------------
(* The metrics of a batch of items *)

\* a count that takes a record without converted for a converted one, which
\* the code's does not
ConversionsUnlessFalse(items) ==
    Cardinality({i \in 1..Len(items) : Get(items[i], "converted", TRUE) = TRUE})

\* sum(1 for item in items if item.get('converted'))
Conversions(items) ==
    Cardinality({i \in 1..Len(items) : Get(items[i], "converted", FALSE) = TRUE})

\* float(item.get('cart_value', 0)) raises on an attribute that is no number
IsNumber(v) == "N" \in DOMAIN v

\* a computation that also fails on an empty batch, which the code's does not
MalformedOrEmpty(items) ==
    \/ items = <<>>
    \/ \E i \in 1..Len(items) : ~IsNumber(Get(items[i], "cart_value", [N |-> 0]))

Malformed(items) ==
    \E i \in 1..Len(items) : ~IsNumber(Get(items[i], "cart_value", [N |-> 0]))

FloatOfCart(item) == FloatOfMilli(Get(item, "cart_value", [N |-> 0]).N)

RECURSIVE SumRange(_, _, _, _)
\* the running total after the items lo..hi are added to acc, one after the
\* other from the left.  The range is halved only to keep the evaluation
\* shallow: the additions and their order are those of a loop over lo..hi.
SumRange(items, lo, hi, acc) ==
    IF lo > hi THEN acc
    ELSE IF lo = hi THEN FAdd(acc, FloatOfCart(items[lo]))
    ELSE LET mid  == (lo + hi) \div 2
             left == SumRange(items, lo, mid, acc)
         IN  CASE Evaluated(left) -> SumRange(items, mid + 1, hi, left)

\* sum(float(item.get('cart_value', 0)) for item in items): sum() adds from
\* the left, starting at 0
SumCart(items) == SumRange(items, 1, Len(items), BigZero)

\* round(conversions / total_sessions, 2) * 100: a rate rounded before it is
\* scaled, which the code's is not
ConversionRateRoundedEarly(conversions, total_sessions) ==
    IF total_sessions > 0
    THEN Round2(IntTrueDiv(conversions, total_sessions)) * 100
    ELSE 0

\* round((conversions / total_sessions * 100) if total_sessions > 0 else 0, 2)
ConversionRate(conversions, total_sessions) ==
    IF total_sessions > 0
    THEN Round2(FMulInt(IntTrueDiv(conversions, total_sessions), 100))
    ELSE 0

\* round(total_revenue, 2)
TotalRevenue(total_revenue) == Round2(total_revenue)

\* round((total_revenue / conversions) if conversions > 0 else 0, 2)
AvgCartValue(total_revenue, conversions) ==
    IF conversions > 0 THEN Round2(FDivInt(total_revenue, conversions)) ELSE 0

\* metrics whose total_sessions counts only the items that carry a cart_value,
\* which the code's does not
ApiMetricsOfCarts(items, t) ==
    LET total_sessions == Cardinality({i \in 1..Len(items) :
                                          "cart_value" \in DOMAIN items[i]})
        conversions    == Conversions(items)
        total_revenue  == SumCart(items)
    IN  [timestamp       |-> t,
         total_sessions  |-> total_sessions,
         conversions     |-> conversions,
         conversion_rate |-> ConversionRate(conversions, total_sessions),
         total_revenue   |-> TotalRevenue(total_revenue),
         avg_cart_value  |-> AvgCartValue(total_revenue, conversions)]

\* metrics over the sessions that began by the time of the call only, which
\* the code's are not
ApiMetricsUntilNow(items, t) ==
    LET began          == SelectSeq(items, LAMBDA item : item.session_timestamp <= t)
        total_sessions == Len(began)
        conversions    == Conversions(began)
        total_revenue  == SumCart(began)
    IN  [timestamp       |-> t,
         total_sessions  |-> total_sessions,
         conversions     |-> conversions,
         conversion_rate |-> ConversionRate(conversions, total_sessions),
         total_revenue   |-> TotalRevenue(total_revenue),
         avg_cart_value  |-> AvgCartValue(total_revenue, conversions)]

\* the metrics of GET /metrics; amounts and the rate in hundredths
ApiMetrics(items, t) ==
    LET total_sessions == Len(items)
        conversions    == Conversions(items)
        total_revenue  == SumCart(items)
    IN  [timestamp       |-> t,
         total_sessions  |-> total_sessions,
         conversions     |-> conversions,
         conversion_rate |-> ConversionRate(conversions, total_sessions),
         total_revenue   |-> TotalRevenue(total_revenue),
         avg_cart_value  |-> AvgCartValue(total_revenue, conversions)]

\* (total_conversions / total_sessions * 100) if total_sessions > 0 else 0:
\* the processor does not round; the value is the float itself
ProcConversionRate(total_conversions, total_sessions) ==
    IF total_sessions > 0
    THEN FMulInt(IntTrueDiv(total_conversions, total_sessions), 100)
    ELSE BigZero

\* metrics whose total_sessions counts the converted items only, which the
\* code's does not
ProcMetricsOfConverted(items, t) ==
    LET total_conversions == Conversions(items)
        total_sessions    == total_conversions
    IN  [timestamp         |-> t,
         total_sessions    |-> total_sessions,
         total_conversions |-> total_conversions,
         conversion_rate   |-> ProcConversionRate(total_conversions, total_sessions)]

\* the metrics of the processor's aggregate
ProcMetrics(items, t) ==
    LET total_sessions    == Len(items)
        total_conversions == Conversions(items)
    IN  [timestamp         |-> t,
         total_sessions    |-> total_sessions,
         total_conversions |-> total_conversions,
         conversion_rate   |-> ProcConversionRate(total_conversions, total_sessions)]

----------------------------------------------------------------------------
(* The API handler *)

\* an error answer whose text is under "message", which the code's is not
ErrorUnderMessage(status, message) ==
    [statusCode |-> status, body |-> [message |-> message]]

\* {'statusCode': status, 'body': json.dumps({'error': message})}
Error(status, message) == [statusCode |-> status, body |-> [error |-> message]]

\* DecimalEncoder: a Decimal is written as float(o)
EncodeItem(item) ==
    [k \in DOMAIN item |->
        IF k = "session_timestamp" THEN [float |-> FixOfNat(item[k])]
        ELSE IF k = "cart_value" /\ IsNumber(item[k])
             THEN [float |-> FloatOfMilli(item[k].N)]
             ELSE item[k]]

\* an outside call an invocation made, and whether it succeeded
Call(name, ok) == [call |-> name, ok |-> ok]

\* a store call that is made again when it fails, which the code's is not
StoreCallRetried(name, ok) ==
    IF ok THEN <<Call(name, TRUE)>> ELSE <<Call(name, FALSE), Call(name, FALSE)>>

\* table.query(...) and table.scan(...): one call, whose exception goes to the
\* handler's except clause
StoreCall(name, ok) == <<Call(name, ok)>>

\* what an invocation did: its outside calls, in order, and what it returned
Outcome(made, response) == [calls |-> made, response |-> response]

\* a trigger that answers 202 without looking at what the dispatch gave, which
\* the code's does not
TriggerProcessingUnchecked(env, requestId) ==
    Outcome(<<Call("invoke", env.invokeOk)>>,
            [statusCode |-> 202,
             body |-> [message |-> "Processing triggered", requestId |-> requestId]])

\* lambda_client.invoke(FunctionName='customer-analytics-processor',
\* InvocationType='Event', Payload={'action': 'aggregate'}), and the answer
\* built from its response
TriggerProcessing(env, requestId) ==
    IF ~env.invokeOk
    THEN Outcome(<<Call("invoke", FALSE)>>, Error(500, "invoke"))
    ELSE Outcome(<<Call("invoke", TRUE)>>,
                 [statusCode |-> 202,
                  body |-> [message |-> "Processing triggered",
                            requestId |-> requestId]])

\* the answer of GET /metrics over the scanned items: float(...) of line 58
\* raises on a cart_value that is no number, before any metric is returned
MetricsResponse(items, t) ==
    IF Malformed(items) THEN Error(500, "float")
    ELSE [statusCode |-> 200, body |-> ApiMetrics(items, t)]

\* not customer_id: params.get('customer_id') is None or the empty string,
\* both written ""
Falsy(v) == v = ""

\* lambda_handler on event: env says which outside calls succeed, requestId
\* is the id the Lambda service gives an accepted dispatch
ApiTrace(event, tbl, t, env, requestId) ==
    LET http_method == Get(event, "httpMethod", "GET")
        path        == Get(event, "path", "/")
    IN  IF ~env.tableOk THEN Outcome(<<>>, Error(500, "table"))
        ELSE IF path = "/health"
        THEN Outcome(<<>>, [statusCode |-> 200,
                            body |-> [status |-> "healthy", timestamp |-> t]])
        ELSE IF path = "/customer" /\ http_method = "GET"
        THEN LET given       == Get(event, "queryStringParameters", <<>>)
                 params      == IF given = None THEN <<>> ELSE given
                 customer_id == Get(params, "customer_id", "")
             IN  IF Falsy(customer_id)
                 THEN Outcome(<<>>, Error(400, "customer_id parameter required"))
                 ELSE IF ~env.storeOk
                 THEN Outcome(StoreCall("query", FALSE), Error(500, "store"))
                 ELSE LET items == Query(tbl, customer_id)
                      IN  Outcome(StoreCall("query", TRUE),
                                  [statusCode |-> 200,
                                   body |-> [customer_id    |-> customer_id,
                                             sessions       |->
                                                 [i \in 1..Len(items) |->
                                                     EncodeItem(items[i])],
                                             total_sessions |-> Len(items)]])
        ELSE IF path = "/metrics" /\ http_method = "GET"
        THEN IF ~env.storeOk
             THEN Outcome(StoreCall("scan", FALSE), Error(500, "store"))
             ELSE LET items == Scan(tbl, ScanLimit)
                  IN  Outcome(StoreCall("scan", TRUE),
                              MetricsResponse(items, t))
        ELSE IF path = "/trigger-processing" /\ http_method = "POST"
        THEN TriggerProcessing(env, requestId)
        ELSE Outcome(<<>>, Error(404, "Endpoint not found"))

\* what lambda_handler returns
ApiHandler(event, tbl, t, env, requestId) ==
    ApiTrace(event, tbl, t, env, requestId).response

IsApiMetrics(q, r) ==
    /\ q # None
    /\ q.handler = "api"
    /\ r.statusCode = 200
    /\ "total_revenue" \in DOMAIN r.body

\* the calls of an invocation that went through
Accepted(made, name) ==
    {i \in 1..Len(made) : made[i].call = name /\ made[i].ok}

\* one invocation of the API handler; an accepted dispatch is queued by the
\* Lambda service
ApiInvoke(event, env) ==
    LET o == ApiTrace(event, store, now, env, dispatched + 1)
        r == o.response
    IN  /\ req' = [handler |-> "api", event |-> event, env |-> env]
        /\ resp' = r
        /\ calls' = o.calls
        /\ IF Accepted(o.calls, "invoke") # {}
           THEN /\ dispatched < MaxDispatch
                /\ dispatched' = dispatched + 1
                /\ pending' = Append(pending, [requestId |-> dispatched + 1,
                                               payload |-> [action |-> "aggregate"]])
           ELSE UNCHANGED <<pending, dispatched>>
        /\ prevMetrics' = IF IsApiMetrics(req', r) /\ IsApiMetrics(req, resp)
                          THEN resp.body ELSE None
        /\ UNCHANGED <<store, now, bucket, rateIn, rateOut, running, script>>

----------------------------------------------------------------------------
(* The processor *)

\* len(data.split('\n')) - 1, data a sequence of characters
RecordCount(data) ==
    LET lines == 1 + Cardinality({i \in 1..Len(data) : data[i] = "\n"})
    IN  lines - 1

HasS3Record(event) ==
    /\ "Records" \in DOMAIN event
    /\ \E i \in 1..Len(event.Records) : "s3" \in DOMAIN event.Records[i]

\* the last entry with s3, which is not the one the code takes
LastS3Record(event) ==
    LET i == CHOOSE j \in 1..Len(event.Records) :
                 /\ "s3" \in DOMAIN event.Records[j]
                 /\ \A k \in (j + 1)..Len(event.Records) :
                        "s3" \notin DOMAIN event.Records[k]
    IN  event.Records[i]

\* for record in event['Records']: if 's3' in record: ... return
FirstS3Record(event) ==
    LET i == CHOOSE j \in 1..Len(event.Records) :
                 /\ "s3" \in DOMAIN event.Records[j]
                 /\ \A k \in 1..(j - 1) : "s3" \notin DOMAIN event.Records[k]
    IN  event.Records[i]

IsAggregate(event) ==
    /\ ~HasS3Record(event)
    /\ "action" \in DOMAIN event
    /\ event.action = "aggregate"

\* f'metrics/{datetime.now().strftime("%Y%m%d_%H%M%S")}_metrics.json'
MetricsKey(t) == [metrics |-> t \div TicksPerSecond]

\* a publisher that is handed the snapshot twice, which the code's is not
PublishTwice(key, body, ok) ==
    <<[call |-> "put_object", ok |-> ok, key |-> key, body |-> body],
      [call |-> "put_object", ok |-> ok, key |-> key, body |-> body]>>

\* a publisher that is handed nothing, which the code's is not
PublishNothing(key, body, ok) == <<>>

\* s3.put_object(Bucket=bucket_name, Key=key, Body=json.dumps(metrics, ...))
Publish(key, body, ok) ==
    <<[call |-> "put_object", ok |-> ok, key |-> key, body |-> body]>>

\* lambda_handler on event; data is the content of the object the event names
ProcTrace(event, tbl, t, env, data) ==
    IF HasS3Record(event)
    THEN IF ~env.getOk
         THEN Outcome(<<Call("get_object", FALSE)>>, Error(500, "get_object"))
         ELSE Outcome(<<Call("get_object", TRUE)>>,
                      [statusCode |-> 200,
                       body |-> [message |->
                                    [processed |-> RecordCount(data),
                                     key |-> FirstS3Record(event).s3.object.key]]])
    ELSE IF IsAggregate(event)
    THEN IF ~env.tableOk THEN Outcome(<<>>, Error(500, "table"))
         ELSE IF ~env.storeOk
         THEN Outcome(StoreCall("scan", FALSE), Error(500, "store"))
         ELSE LET metrics == ProcMetrics(Scan(tbl, ScanLimit), t)
              IN  IF ~env.putOk
                  THEN Outcome(StoreCall("scan", TRUE)
                                   \o Publish(MetricsKey(t), metrics, FALSE),
                               Error(500, "put_object"))
                  ELSE Outcome(StoreCall("scan", TRUE)
                                   \o Publish(MetricsKey(t), metrics, TRUE),
                               [statusCode |-> 200, body |-> metrics])
    ELSE Outcome(<<>>, [statusCode |-> 200,
                        body |-> [message |-> "Data processor ready"]])

\* what lambda_handler returns
ProcHandler(event, tbl, t, env, data) == ProcTrace(event, tbl, t, env, data).response

\* the bucket after an object is put under key
PutObject(objects, key, body) ==
    [k \in DOMAIN objects \cup {key} |-> IF k = key THEN body ELSE objects[k]]

\* the bucket after the put_object calls of an invocation that went through
RECURSIVE PutObjects(_, _)
PutObjects(objects, made) ==
    IF made = <<>> THEN objects
    ELSE LET c == Head(made)
         IN  PutObjects(IF c.call = "put_object" /\ c.ok
                        THEN PutObject(objects, c.key, c.body)
                        ELSE objects,
                        Tail(made))

\* a processor that ingests the object a storage event names into the table,
\* which the code's does not
ProcRunIngesting(event, env, data) ==
    LET o == ProcTrace(event, store, now, env, data)
    IN  /\ req' = [handler |-> "processor", event |-> event, env |-> env,
                   data |-> data]
        /\ resp' = o.response
        /\ calls' = o.calls
        /\ bucket' = PutObjects(bucket, o.calls)
        /\ prevMetrics' = None
        /\ store' = IF HasS3Record(event) /\ Len(store) < MaxStore
                    THEN Append(store, [customer_id |-> "c9", session_timestamp |-> 9])
                    ELSE store
        /\ UNCHANGED <<now, rateIn, rateOut, running, script>>

\* one invocation of the processor
ProcRun(event, env, data) ==
    LET o == ProcTrace(event, store, now, env, data)
    IN  /\ req' = [handler |-> "processor", event |-> event, env |-> env,
                   data |-> data]
        /\ resp' = o.response
        /\ calls' = o.calls
        /\ bucket' = PutObjects(bucket, o.calls)
        /\ prevMetrics' = None
        /\ UNCHANGED <<store, now, rateIn, rateOut, running, script>>

\* a synchronous invocation (InvocationType='RequestResponse')
ProcInvoke(event, env, data) ==
    /\ ProcRun(event, env, data)
    /\ UNCHANGED <<pending, dispatched>>

\* the Lambda service delivers an accepted asynchronous invocation
ProcDeliver(env) ==
    /\ pending # <<>>
    /\ ProcRun(Head(pending).payload, env, <<>>)
    /\ pending' = Tail(pending)
    /\ UNCHANGED dispatched

----------------------------------------------------------------------------
(* The environment *)

\* the ingestion writes an item under a key the table does not hold
PutItem(item) ==
    /\ Len(store) < MaxStore
    /\ \A i \in 1..Len(store) : KeyOf(store[i]) # KeyOf(item)
    /\ store' = Append(store, item)
    /\ prevMetrics' = None
    /\ req' = None
    /\ resp' = None
    /\ calls' = <<>>
    /\ UNCHANGED <<now, bucket, pending, dispatched, rateIn, rateOut, running, script>>

Tick ==
    /\ now < MaxClock
    /\ now' = now + 1
    /\ UNCHANGED <<store, req, resp, calls, bucket, pending, dispatched,
                   prevMetrics, rateIn, rateOut, running, script>>

\* tableOk: DYNAMODB_TABLE is set, so that dynamodb.Table(name) gives a table
\* (boto3 raises ValueError on a name that is None); the other fields: the
\* call goes through
AllOk ==
    [tableOk |-> TRUE, storeOk |-> TRUE, invokeOk |-> TRUE, putOk |-> TRUE,
     getOk |-> TRUE]

\* the outcomes of the outside calls an invocation for event can make
ApiEnvs(event) ==
    LET path == Get(event, "path", "/")
    IN  { [AllOk EXCEPT !.storeOk = s, !.invokeOk = v] :
            s \in IF path \in {"/metrics", "/customer", "/health"}
                  THEN BOOLEAN ELSE {TRUE},
            v \in IF path = "/trigger-processing" THEN BOOLEAN ELSE {TRUE} }
        \cup {[AllOk EXCEPT !.tableOk = FALSE]}

ProcEnvs(event) ==
    { [AllOk EXCEPT !.storeOk = s, !.putOk = p, !.getOk = g] :
        s \in IF "action" \in DOMAIN event THEN BOOLEAN ELSE {TRUE},
        p \in IF "action" \in DOMAIN event THEN BOOLEAN ELSE {TRUE},
        g \in IF "Records" \in DOMAIN event THEN BOOLEAN ELSE {TRUE} }
        \cup IF "action" \in DOMAIN event
             THEN {[AllOk EXCEPT !.tableOk = FALSE]} ELSE {}

MetricsEvent == [httpMethod |-> "GET", path |-> "/metrics"]

HealthEvent == [httpMethod |-> "GET", path |-> "/health"]

TriggerEvent == [httpMethod |-> "POST", path |-> "/trigger-processing"]

CustomerEvent(cid) ==
    [httpMethod |-> "GET", path |-> "/customer",
     queryStringParameters |-> [customer_id |-> cid]]

\* GET /customer with no customer_id: no query parameters, null ones, ones
\* without customer_id, an empty customer_id
NoCustomerEvents ==
    { [httpMethod |-> "GET", path |-> "/customer"],
      [httpMethod |-> "GET", path |-> "/customer", queryStringParameters |-> None],
      [httpMethod |-> "GET", path |-> "/customer",
       queryStringParameters |-> [limit |-> "5"]],
      CustomerEvent("") }

\* requests outside the four routes: a route's path with another method,
\* another path, no path
OtherEvents ==
    { [httpMethod |-> "POST", path |-> "/health"],
      [httpMethod |-> "POST", path |-> "/metrics"],
      [httpMethod |-> "POST", path |-> "/customer",
       queryStringParameters |-> [customer_id |-> "c1"]],
      [httpMethod |-> "GET", path |-> "/trigger-processing"],
      [httpMethod |-> "GET", path |-> "/unknown"],
      <<>> }

ApiEvents ==
    {MetricsEvent, HealthEvent, TriggerEvent, CustomerEvent("c1")}
        \cup NoCustomerEvents \cup OtherEvents

AggregateEvent == [action |-> "aggregate"]

ProcEvents ==
    { AggregateEvent,
      [action |-> "other"],
      [Records |-> <<[s3 |-> [bucket |-> [name |-> "raw"],
                              object |-> [key |-> "data.csv"]]]>>],
      <<>> }

Contents == {<<"h">>, <<"h", "\n", "r">>, <<"h", "\n", "r", "\n">>}

----------------------------------------------------------------------------
(* The system: the handlers over a table the ingestion fills *)

Init ==
    /\ store = <<>>
    /\ now = 0
    /\ req = None
    /\ resp = None
    /\ calls = <<>>
    /\ bucket = <<>>
    /\ pending = <<>>
    /\ dispatched = 0
    /\ prevMetrics = None
    /\ running = NoneRunning
    /\ script = None
    /\ rateIn = None
    /\ rateOut = None

Next ==
    \/ \E event \in ApiEvents : \E env \in ApiEnvs(event) : ApiInvoke(event, env)
    \/ \E event \in ProcEvents : \E env \in ProcEnvs(event) :
           \E data \in IF HasS3Record(event) THEN Contents ELSE {<<>>} :
               ProcInvoke(event, env, data)
    \/ \E env \in ProcEnvs(AggregateEvent) : ProcDeliver(env)
    \/ \E key \in Keys, shape \in SystemShapes : PutItem(Item(key, shape))
    \/ Tick

Spec == Init /\ [][Next]_vars

----------------------------------------------------------------------------
(* The metrics of every table content: the handlers that aggregate, over a
   table that holds any short batch, or a long one around the scan limit *)

ShortBatches ==
    UNION { { [i \in 1..n |-> Item(<<"c1", i>>, f[i])] :
                f \in [1..n -> NumericShapes] } : n \in 0..MaxBatch }

LongBatch(n) ==
    [i \in 1..n |-> Item(<<"c1", i>>,
                         IF i % 2 = 1
                         THEN [converted |-> TRUE, cart_value |-> [N |-> 10]]
                         ELSE <<>>)]

LongBatches == {LongBatch(n) : n \in (ScanLimit - 1)..MaxScanStore}

InitBatch ==
    /\ store \in ShortBatches \cup LongBatches
    /\ now = 0
    /\ req = None
    /\ resp = None
    /\ calls = <<>>
    /\ bucket = <<>>
    /\ pending = <<>>
    /\ dispatched = 0
    /\ prevMetrics = None
    /\ running = NoneRunning
    /\ script = None
    /\ rateIn = None
    /\ rateOut = None

NextBatch ==
    \/ ApiInvoke(MetricsEvent, AllOk)
    \/ ProcInvoke(AggregateEvent, AllOk, <<>>)

SpecBatch == InitBatch /\ [][NextBatch]_vars

----------------------------------------------------------------------------
(* The customer query: GET /customer over every table of up to MaxItems
   items of two customers, in every order a scan can give them *)

MaxItems == 3

CustomerShapes ==
    { [converted |-> TRUE, cart_value |-> [N |-> 50070]], <<>> }

CustomerTables ==
    UNION { { tbl \in [1..n -> {Item(k, sh) : k \in Keys, sh \in CustomerShapes}] :
                \A i, j \in 1..n : i # j => KeyOf(tbl[i]) # KeyOf(tbl[j]) } :
            n \in 0..Min(MaxItems, Cardinality(Keys)) }

CustomerEvents ==
    {CustomerEvent("c1"), CustomerEvent("c2"), CustomerEvent("c3")}
        \cup NoCustomerEvents

InitCustomer ==
    /\ store \in CustomerTables
    /\ now = 0
    /\ req = None
    /\ resp = None
    /\ calls = <<>>
    /\ bucket = <<>>
    /\ pending = <<>>
    /\ dispatched = 0
    /\ prevMetrics = None
    /\ running = NoneRunning
    /\ script = None
    /\ rateIn = None
    /\ rateOut = None

NextCustomer ==
    \E event \in CustomerEvents : \E env \in ApiEnvs(event) : ApiInvoke(event, env)

SpecCustomer == InitCustomer /\ [][NextCustomer]_vars

----------------------------------------------------------------------------
(* The direct-action aggregate: the processor over short tables and tables
   around the scan limit, at every time of the clock, its outside calls
   going through or failing *)

InitAggregate ==
    /\ store \in CustomerTables \cup LongBatches
    /\ now = 0
    /\ req = None
    /\ resp = None
    /\ calls = <<>>
    /\ bucket = <<>>
    /\ pending = <<>>
    /\ dispatched = 0
    /\ prevMetrics = None
    /\ running = NoneRunning
    /\ script = None
    /\ rateIn = None
    /\ rateOut = None

NextAggregate ==
    \/ \E env \in ProcEnvs(AggregateEvent) : ProcInvoke(AggregateEvent, env, <<>>)
    \/ Tick

SpecAggregate == InitAggregate /\ [][NextAggregate]_vars

----------------------------------------------------------------------------
(* The two aggregations over tables of records of every kind, a cart_value
   that is no number among them *)

MixedTables ==
    UNION { { [i \in 1..n |-> Item(<<"c1", i>>, f[i])] :
                f \in [1..n -> SystemShapes] } : n \in 0..MaxItems }

InitMixed ==
    /\ store \in MixedTables
    /\ now = 0
    /\ req = None
    /\ resp = None
    /\ calls = <<>>
    /\ bucket = <<>>
    /\ pending = <<>>
    /\ dispatched = 0
    /\ prevMetrics = None
    /\ running = NoneRunning
    /\ script = None
    /\ rateIn = None
    /\ rateOut = None

NextMixed ==
    \/ \E env \in ApiEnvs(MetricsEvent) : ApiInvoke(MetricsEvent, env)
    \/ \E env \in ProcEnvs(AggregateEvent) : ProcInvoke(AggregateEvent, env, <<>>)

SpecMixed == InitMixed /\ [][NextMixed]_vars

----------------------------------------------------------------------------
(* Invocations in progress at the same time, each in a container of its own,
   while the ingestion writes: an invocation begins, its scan returns, it
   computes and returns *)

\* the ingestion appends a record while invocations are in progress
AppendRecord(shape) ==
    /\ Len(store) < MaxItems
    /\ store' = Append(store, Item(<<"c1", Len(store) + 1>>, shape))
    /\ UNCHANGED <<now, req, resp, calls, bucket, pending, dispatched,
                   prevMetrics, rateIn, rateOut, running, script>>

\* lambda_handler is entered: h is "api" for GET /metrics, "processor" for
\* the direct-action aggregate
Begin(id, h) ==
    /\ running[id].phase = "idle"
    /\ running' = [running EXCEPT ![id] = [phase |-> "scanning", handler |-> h]]
    /\ UNCHANGED <<store, now, req, resp, calls, bucket, pending, dispatched,
                   prevMetrics, rateIn, rateOut, script>>

\* items kept in a variable the invocations share, which the code's are not:
\* every invocation computes on what the latest scan left there
ScannedByAnyone(id, scans) ==
    scans[CHOOSE i \in DOMAIN scans : \A j \in DOMAIN scans : j <= i]

\* the items invocation id computes on: those its own scan returned, held in
\* a local variable of the handler
ScannedBy(id, scans) == scans[id]

\* table.scan(Limit=100) returns: the read is eventually consistent, so the
\* records written last may be missing from it
ScanReturns(id, n) ==
    /\ running[id].phase = "scanning"
    /\ n \in 0..Len(store)
    /\ running' = [running EXCEPT ![id] =
                      [phase   |-> "scanned",
                       handler |-> running[id].handler,
                       items   |-> Scan(SubSeq(store, 1, n), ScanLimit),
                       written |-> Len(store)]]
    /\ UNCHANGED <<store, now, req, resp, calls, bucket, pending, dispatched,
                   prevMetrics, rateIn, rateOut, script>>

\* the handler computes on its items and returns; the aggregate publishes
Return(id) ==
    /\ running[id].phase = "scanned"
    /\ LET scans == [i \in {j \in Invocations : running[j].phase = "scanned"} |->
                        running[i].items]
           items == ScannedBy(id, scans)
           r     == IF running[id].handler = "api"
                    THEN MetricsResponse(items, now)
                    ELSE [statusCode |-> 200, body |-> ProcMetrics(items, now)]
       IN  /\ running' = [running EXCEPT ![id] =
                             [phase    |-> "returned",
                              handler  |-> running[id].handler,
                              written  |-> running[id].written,
                              response |-> r]]
           /\ bucket' = IF running[id].handler = "processor"
                        THEN PutObject(bucket, MetricsKey(now), r.body)
                        ELSE bucket
    /\ UNCHANGED <<store, now, req, resp, calls, pending, dispatched,
                   prevMetrics, rateIn, rateOut, script>>

InitConcurrent ==
    /\ store = <<>>
    /\ now = 0
    /\ req = None
    /\ resp = None
    /\ calls = <<>>
    /\ bucket = <<>>
    /\ pending = <<>>
    /\ dispatched = 0
    /\ prevMetrics = None
    /\ running = NoneRunning
    /\ script = None
    /\ rateIn = None
    /\ rateOut = None

NextConcurrent ==
    \/ \E shape \in CustomerShapes : AppendRecord(shape)
    \/ \E id \in Invocations, h \in {"api", "processor"} : Begin(id, h)
    \/ \E id \in Invocations : \E n \in 0..Len(store) : ScanReturns(id, n)
    \/ \E id \in Invocations : Return(id)

SpecConcurrent == InitConcurrent /\ [][NextConcurrent]_vars

----------------------------------------------------------------------------
(* The trigger and what it dispatched: the Lambda service delivers every
   asynchronous invocation it accepted; store and bucket answer *)

NextTrigger ==
    \/ \E env \in ApiEnvs(TriggerEvent) : ApiInvoke(TriggerEvent, env)
    \/ \E env \in ApiEnvs(MetricsEvent) : ApiInvoke(MetricsEvent, env)
    \/ ProcDeliver(AllOk)
    \/ \E key \in Keys, shape \in SystemShapes : PutItem(Item(key, shape))
    \/ Tick

\* the head of the queue is delivered: in NextTrigger, a step of ProcDeliver
Delivery == pending # <<>> /\ pending' = Tail(pending)

SpecTrigger == Init /\ [][NextTrigger]_vars /\ WF_pending(Delivery)

----------------------------------------------------------------------------
(* The events of the processor: storage events, direct actions, both, and
   neither *)

S3Entry(key) == [s3 |-> [bucket |-> [name |-> "raw"], object |-> [key |-> key]]]

OtherEntry == [eventSource |-> "aws:sqs"]

DecodeEvents ==
    { [Records |-> <<S3Entry("a.csv")>>],
      [Records |-> <<S3Entry("a.csv"), S3Entry("b.csv")>>],
      [Records |-> <<OtherEntry, S3Entry("b.csv"), S3Entry("a.csv")>>],
      [Records |-> <<S3Entry("a.csv")>>, action |-> "aggregate"],
      [Records |-> <<OtherEntry>>],
      [Records |-> <<OtherEntry>>, action |-> "aggregate"],
      [Records |-> <<>>],
      [action |-> "aggregate"],
      [action |-> "other"],
      [detail |-> "scheduled"],
      <<>> }

InitDecode ==
    /\ store \in MixedTables
    /\ now = 0
    /\ req = None
    /\ resp = None
    /\ calls = <<>>
    /\ bucket = <<>>
    /\ pending = <<>>
    /\ dispatched = 0
    /\ prevMetrics = None
    /\ running = NoneRunning
    /\ script = None
    /\ rateIn = None
    /\ rateOut = None

NextDecode ==
    \E event \in DecodeEvents : \E env \in ProcEnvs(event) :
        \E data \in IF HasS3Record(event) THEN Contents ELSE {<<>>} :
            ProcInvoke(event, env, data)

SpecDecode == InitDecode /\ [][NextDecode]_vars

----------------------------------------------------------------------------
(* The rate expression of GET /metrics on every pair of counts a scan of at
   most ScanLimit items can give *)

InitRate ==
    /\ rateIn \in {[conversions |-> c, total_sessions |-> n] :
                      n \in 0..ScanLimit, c \in 0..ScanLimit} 
    /\ rateIn.conversions <= rateIn.total_sessions
    /\ rateOut = None
    /\ store = <<>>
    /\ now = 0
    /\ req = None
    /\ resp = None
    /\ calls = <<>>
    /\ bucket = <<>>
    /\ pending = <<>>
    /\ dispatched = 0
    /\ prevMetrics = None
    /\ running = NoneRunning
    /\ script = None

ComputeRate ==
    /\ rateOut = None
    /\ rateOut' = [conversion_rate |->
                      ConversionRate(rateIn.conversions, rateIn.total_sessions)]
    /\ UNCHANGED <<store, now, req, resp, calls, bucket, pending, dispatched,
                   prevMetrics, rateIn, running, script>>

NextRate == ComputeRate

SpecRate == InitRate /\ [][NextRate]_vars

----------------------------------------------------------------------------
(* What the claims speak of *)

\* the batch the scan of the last invocation returned (req and resp are of
\* an invocation made since the table was last written)
Batch == Scan(store, ScanLimit)

ApiSnapshot == IsApiMetrics(req, resp)

ProcSnapshot ==
    /\ req # None
    /\ req.handler = "processor"
    /\ resp.statusCode = 200
    /\ "total_conversions" \in DOMAIN resp.body

\* the five fields of a snapshot of GET /metrics beside its timestamp
Fields(m) ==
    <<m.total_sessions, m.conversions, m.conversion_rate, m.total_revenue,
      m.avg_cart_value>>

\* n / d rounded to the nearest integer, ties to even, in exact arithmetic
RoundHalfEven(n, d) ==
    LET q == n \div d
        r == n % d
    IN  IF 2 * r > d \/ (2 * r = d /\ q % 2 = 1) THEN q + 1 ELSE q

RECURSIVE ExactSumRange(_, _, _)
\* the sum of cart_value over the items lo..hi, in thousandths, a missing
\* cart_value counting as 0
ExactSumRange(items, lo, hi) ==
    IF lo > hi THEN 0
    ELSE IF lo = hi THEN Get(items[lo], "cart_value", [N |-> 0]).N
    ELSE LET mid == (lo + hi) \div 2
         IN  ExactSumRange(items, lo, mid) + ExactSumRange(items, mid + 1, hi)

ExactSum(items) == ExactSumRange(items, 1, Len(items))

ExactRevenue(items) == RoundHalfEven(ExactSum(items), 10)

ExactRate(conversions, total_sessions) ==
    IF total_sessions > 0
    THEN RoundHalfEven(conversions * 10000, total_sessions)
    ELSE 0

ExactAvg(items) ==
    IF Conversions(items) > 0
    THEN RoundHalfEven(ExactSum(items), 10 * Conversions(items))
    ELSE 0

\* the attributes of the items of a batch, without their keys
Shape(item) == [k \in DOMAIN item \ {"customer_id", "session_timestamp"} |-> item[k]]

Shapes(items) == [i \in 1..Len(items) |-> Shape(items[i])]

\* the orders a batch can come in
Orders(items) ==
    {[i \in 1..Len(items) |-> items[f[i]]] : f \in Permutations(1..Len(items))}

----------------------------------------------------------------------------
(* Claims *)

\* C1: every snapshot that GET /metrics returns, and every snapshot the
\* direct-action aggregate returns or publishes, has total_sessions equal to
\* the number of records of the batch the scan returned.
C1_TotalSessionsIsBatchSize ==
    /\ ApiSnapshot => resp.body.total_sessions = Len(Batch)
    /\ ProcSnapshot => resp.body.total_sessions = Len(Batch)
    /\ \A k \in DOMAIN bucket : bucket[k].total_sessions = Len(Batch)

\* C1 happens: a batch of three records was aggregated by both handlers
C1_Witness ==
    /\ ApiSnapshot
    /\ resp.body.total_sessions = 3
    /\ \E k \in DOMAIN bucket : bucket[k].total_sessions = 3

\* C2: in every snapshot returned or published, conversions is between 0 and
\* total_sessions.
C2_ConversionsWithinSessions ==
    /\ ApiSnapshot =>
          /\ 0 <= resp.body.conversions
          /\ resp.body.conversions <= resp.body.total_sessions
    /\ ProcSnapshot =>
          /\ 0 <= resp.body.total_conversions
          /\ resp.body.total_conversions <= resp.body.total_sessions
    /\ \A k \in DOMAIN bucket :
          /\ 0 <= bucket[k].total_conversions
          /\ bucket[k].total_conversions <= bucket[k].total_sessions

\* C2 happens: some but not all records of a batch are converted
C2_Witness ==
    /\ ApiSnapshot
    /\ 0 < resp.body.conversions
    /\ resp.body.conversions < resp.body.total_sessions
    /\ \E k \in DOMAIN bucket :
          /\ 0 < bucket[k].total_conversions
          /\ bucket[k].total_conversions < bucket[k].total_sessions

\* C3: when the scan of GET /metrics succeeds and returns no record, the
\* response is status 200 and its counts, rate and amounts are all 0.
C3_EmptyBatchAllZero ==
    ( /\ req # None
      /\ req.handler = "api"
      /\ req.event = MetricsEvent
      /\ Accepted(calls, "scan") # {}
      /\ Len(Batch) = 0 )
    => /\ resp.statusCode = 200
       /\ "total_sessions" \in DOMAIN resp.body
       /\ Fields(resp.body) = <<0, 0, 0, 0, 0>>

\* C3 happens: GET /metrics was answered over an empty table
C3_Witness ==
    /\ req # None
    /\ req.handler = "api"
    /\ req.event = MetricsEvent
    /\ req.env.storeOk
    /\ store = <<>>
    /\ resp.statusCode = 200

\* C4: the snapshot of GET /metrics is the same for every order of the batch.
C4_OrderIndependent ==
    (ApiSnapshot /\ Len(Batch) <= MaxBatch)
    => \A p \in Orders(Batch) : Fields(ApiMetrics(p, now)) = Fields(resp.body)

\* C5: total_revenue of GET /metrics is the sum of cart_value over every
\* record of the batch, converted or not, a missing cart_value counting as 0,
\* rounded to 2 decimal places.
C5_TotalRevenueIsRoundedSum ==
    ApiSnapshot => resp.body.total_revenue = ExactRevenue(Batch)

\* C5, its example: three records, one converted with cart_value 150.00, the
\* others with cart_value 0, give 150.00, 33.33 and 150.00.
C5_Example ==
    ( /\ ApiSnapshot
      /\ Shapes(Batch) \in Orders(<<[converted |-> TRUE, cart_value |-> [N |-> 150000]],
                                    [converted |-> FALSE, cart_value |-> [N |-> 0]],
                                    [converted |-> FALSE, cart_value |-> [N |-> 0]]>>) )
    => /\ resp.body.total_revenue = 15000
       /\ resp.body.conversion_rate = 3333
       /\ resp.body.avg_cart_value = 15000

\* C6: conversion_rate is conversions / total_sessions * 100 rounded to 2
\* decimal places when total_sessions > 0, and 0 when total_sessions = 0; it
\* is always between 0 and 100.
C6_ConversionRate ==
    rateOut # None =>
       /\ rateOut.conversion_rate =
             ExactRate(rateIn.conversions, rateIn.total_sessions)
       /\ 0 <= rateOut.conversion_rate
       /\ rateOut.conversion_rate <= 10000

\* C6 happens: 1 conversion in 32 sessions is 3.125 percent, a tie, given
\* as 3.12
C6_Witness ==
    /\ rateOut # None
    /\ rateIn = [conversions |-> 1, total_sessions |-> 32]
    /\ rateOut.conversion_rate = 312

\* C7: avg_cart_value of GET /metrics is total_revenue / conversions rounded
\* to 2 decimal places when conversions > 0, and 0 when conversions = 0.
C7_AvgCartValue ==
    ApiSnapshot => resp.body.avg_cart_value = ExactAvg(Batch)

\* C7, its second half: with no conversion avg_cart_value is 0 whatever the
\* revenue.
C7_ZeroWithoutConversions ==
    (ApiSnapshot /\ resp.body.conversions = 0) => resp.body.avg_cart_value = 0

\* C8: sums are accumulated exactly and rounded only in the output: the three
\* rounded fields are those of exact decimal arithmetic, and 33.333, 33.333
\* and 33.334, all converted, give total_revenue 100.00.
C8_DecimalAccumulation ==
    ApiSnapshot =>
       /\ resp.body.total_revenue = ExactRevenue(Batch)
       /\ resp.body.avg_cart_value = ExactAvg(Batch)
       /\ resp.body.conversion_rate =
             ExactRate(resp.body.conversions, resp.body.total_sessions)
       /\ ( Shapes(Batch) \in Orders(<<[converted |-> TRUE, cart_value |-> [N |-> 33333]],
                                       [converted |-> TRUE, cart_value |-> [N |-> 33333]],
                                       [converted |-> TRUE, cart_value |-> [N |-> 33334]]>>)
            => resp.body.total_revenue = 10000 )

\* C8, its example alone
C8_Example ==
    ( /\ ApiSnapshot
      /\ Shapes(Batch) \in Orders(<<[converted |-> TRUE, cart_value |-> [N |-> 33333]],
                                    [converted |-> TRUE, cart_value |-> [N |-> 33333]],
                                    [converted |-> TRUE, cart_value |-> [N |-> 33334]]>>) )
    => resp.body.total_revenue = 10000

\* C9: a metrics computation reads at most ScanLimit records in one scan: in
\* every snapshot returned or published total_sessions is at most ScanLimit,
\* and is the smaller of the table's size and ScanLimit.
C9_ScanBounded ==
    /\ (ApiSnapshot \/ ProcSnapshot) =>
          /\ resp.body.total_sessions <= ScanLimit
          /\ resp.body.total_sessions = Min(Len(store), ScanLimit)
    /\ \A k \in DOMAIN bucket :
          /\ bucket[k].total_sessions <= ScanLimit
          /\ bucket[k].total_sessions = Min(Len(store), ScanLimit)

\* C9 happens: a table of more than ScanLimit items was aggregated
C9_Witness ==
    /\ ApiSnapshot
    /\ Len(store) > ScanLimit
    /\ resp.body.total_sessions = ScanLimit
    /\ \E k \in DOMAIN bucket : bucket[k].total_sessions = ScanLimit

----------------------------------------------------------------------------
(* The routes of the API *)

ApiRequest == req # None /\ req.handler = "api"

ProcRequest == req # None /\ req.handler = "processor"

Method == Get(req.event, "httpMethod", "GET")

Path == Get(req.event, "path", "/")

\* the customer_id a GET /customer request carries, "" when it carries none
RequestedCustomer ==
    LET given == Get(req.event, "queryStringParameters", <<>>)
    IN  IF given = None THEN "" ELSE Get(given, "customer_id", "")

CustomerRequest == ApiRequest /\ Path = "/customer" /\ Method = "GET"

\* the positions of the table that hold a record of customer cid
Partition(cid) == {i \in 1..Len(store) : store[i].customer_id = cid}

\* the session_timestamp of a returned session, read back from its float
TimestampOf(session) ==
    CHOOSE n \in 0..9 : FixOfNat(n) = session.session_timestamp.float

C11_WitnessEmpty ==
    /\ CustomerRequest
    /\ RequestedCustomer = "c3"
    /\ store # <<>>
    /\ resp.statusCode = 200
    /\ resp.body.sessions = <<>>

\* C12: GET /customer without a customer_id (no query parameters, null
\* ones, ones without customer_id, an empty customer_id) returns 400 with
\* {error: "customer_id parameter required"} and makes no store call.
C12_MissingCustomerId ==
    (CustomerRequest /\ RequestedCustomer = "")
    => /\ resp = Error(400, "customer_id parameter required")
       /\ calls = <<>>

\* C12 where it holds: with the table name set, whether or not the store
\* can be reached
C12_WhenTableConfigured ==
    (CustomerRequest /\ RequestedCustomer = "" /\ req.env.tableOk)
    => /\ resp = Error(400, "customer_id parameter required")
       /\ calls = <<>>

\* C12 happens: null query parameters, a store that cannot be reached
C12_Example ==
    /\ CustomerRequest
    /\ Get(req.event, "queryStringParameters", <<>>) = None
    /\ req.env.tableOk /\ ~req.env.storeOk
    /\ resp.statusCode = 400

\* the four routes
Routes ==
    { <<"GET", "/health">>, <<"GET", "/customer">>, <<"GET", "/metrics">>,
      <<"POST", "/trigger-processing">> }

\* C13: every request whose (method, path) is none of the four routes is
\* answered 404 with {error: "Endpoint not found"}.
C13_NotFound ==
    (ApiRequest /\ <<Method, Path>> \notin Routes)
    => resp = Error(404, "Endpoint not found")

\* C13 where it holds: on every path but /health, with the table name set
C13_OtherPaths ==
    (ApiRequest /\ <<Method, Path>> \notin Routes /\ Path # "/health"
         /\ req.env.tableOk)
    => resp = Error(404, "Endpoint not found")

\* C13 happens: a route's path with another method is answered 404
C13_Example ==
    /\ ApiRequest
    /\ Method = "GET" /\ Path = "/trigger-processing"
    /\ resp.statusCode = 404

\* C14: GET /health returns 200 with status "healthy" and a timestamp in
\* every state, whatever the store and its configuration, and makes no store
\* call.
C14_HealthAlways ==
    (ApiRequest /\ Method = "GET" /\ Path = "/health")
    => /\ resp.statusCode = 200
       /\ DOMAIN resp.body = {"status", "timestamp"}
       /\ resp.body.status = "healthy"
       /\ calls = <<>>

\* C14 where it holds: with the table name set, whether or not the store
\* can be reached
C14_HealthWhenConfigured ==
    (ApiRequest /\ Method = "GET" /\ Path = "/health" /\ req.env.tableOk)
    => /\ resp.statusCode = 200
       /\ DOMAIN resp.body = {"status", "timestamp"}
       /\ resp.body.status = "healthy"
       /\ calls = <<>>

\* C14 happens: healthy over a store that cannot be reached
C14_Example ==
    /\ ApiRequest
    /\ Method = "GET" /\ Path = "/health"
    /\ ~req.env.storeOk
    /\ resp.statusCode = 200

----------------------------------------------------------------------------
(* Failures of the outside calls *)

\* the store calls of the last invocation
StoreCalls == {i \in 1..Len(calls) : calls[i].call \in {"query", "scan"}}

ErrorResponse(status) == resp.statusCode = status /\ DOMAIN resp.body = {"error"}

C15_WitnessScan ==
    /\ ApiRequest /\ Method = "GET" /\ Path = "/metrics"
    /\ calls = <<Call("scan", FALSE)>>
    /\ ErrorResponse(500)

TriggerRequest == ApiRequest /\ Method = "POST" /\ Path = "/trigger-processing"

\* C16: POST /trigger-processing returns 202 exactly when its dispatch was
\* accepted, then with a message and the requestId of the dispatch of
\* {action: "aggregate"} that was queued; a dispatch that failed is answered
\* with a 500 error.
C16_TriggerAccepted ==
    TriggerRequest
    => /\ resp.statusCode = 202 <=> Accepted(calls, "invoke") # {}
       /\ resp.statusCode = 202
              => /\ DOMAIN resp.body = {"message", "requestId"}
                 /\ \E i \in 1..Len(pending) :
                        /\ pending[i].requestId = resp.body.requestId
                        /\ pending[i].payload = [action |-> "aggregate"]
       /\ calls = <<Call("invoke", FALSE)>> => ErrorResponse(500)

\* C16 happens: a dispatch was accepted
C16_Witness ==
    /\ TriggerRequest
    /\ resp.statusCode = 202
    /\ Len(pending) = 1

\* C16 happens: a dispatch failed
C16_WitnessFailed ==
    /\ TriggerRequest
    /\ calls = <<Call("invoke", FALSE)>>
    /\ resp.statusCode = 500

\* C17: every invocation of either handler returns a response: an error
\* {error: message} with status 400, 404 or 500, or a success with status 200
\* or 202 and no error field.
C17_ResponseShapes ==
    req # None
    => /\ resp # None
       /\ \/ resp.statusCode \in {400, 404, 500} /\ DOMAIN resp.body = {"error"}
          \/ resp.statusCode \in {200, 202} /\ "error" \notin DOMAIN resp.body

\* C17 happens: the processor failed to read the object of a storage event
C17_Witness ==
    /\ ProcRequest
    /\ HasS3Record(req.event)
    /\ calls = <<Call("get_object", FALSE)>>
    /\ ErrorResponse(500)

\* a step of one of the two handlers
HandlerStep ==
    \/ \E event \in ApiEvents : \E env \in ApiEnvs(event) : ApiInvoke(event, env)
    \/ \E event \in ProcEvents : \E env \in ProcEnvs(event) :
           \E data \in IF HasS3Record(event) THEN Contents ELSE {<<>>} :
               ProcInvoke(event, env, data)
    \/ \E env \in ProcEnvs(AggregateEvent) : ProcDeliver(env)

\* C18: no step of a handler, API or processor, succeeding or failing,
\* changes the records of the store.
C18_StoreNotMutated == [][HandlerStep => store' = store]_vars

\* C18 happens: the processor handled a storage event over a table that
\* holds a record
C18_Witness ==
    /\ ProcRequest
    /\ HasS3Record(req.event)
    /\ resp.statusCode = 200
    /\ store # <<>>

----------------------------------------------------------------------------
(* The direct-action aggregate *)

AggregateRequest == ProcRequest /\ IsAggregate(req.event)

\* the put_object calls of the last invocation
Puts == {i \in 1..Len(calls) : calls[i].call = "put_object"}

SnapshotFields == {"timestamp", "total_sessions", "total_conversions", "conversion_rate"}

PublishFailed == \E i \in Puts : ~calls[i].ok

\* C20: an aggregate whose publishing failed reports the failure and still
\* returns the fields of the snapshot it had computed.
C20_SnapshotSurvivesPublishFailure ==
    (AggregateRequest /\ PublishFailed)
    => /\ "error" \in DOMAIN resp.body
       /\ SnapshotFields \subseteq DOMAIN resp.body
       /\ \A i \in Puts : \A f \in SnapshotFields : resp.body[f] = calls[i].body[f]

\* C20, the half that holds: the failure is reported, as a 500 error
C20_FailureReported ==
    (AggregateRequest /\ PublishFailed) => ErrorResponse(500)

\* C20 happens: the snapshot of a table that holds records was computed and
\* its publishing failed
C20_Example ==
    /\ AggregateRequest
    /\ PublishFailed
    /\ \E i \in Puts : calls[i].body.total_sessions = MaxItems
    /\ bucket = <<>>

----------------------------------------------------------------------------
(* The published snapshots *)

\* a step of the processor on a direct-action aggregate whose publishing
\* went through
AggregatePublished ==
    /\ \E env \in ProcEnvs(AggregateEvent) :
           \/ ProcInvoke(AggregateEvent, env, <<>>)
           \/ ProcDeliver(env)
    /\ Accepted(calls', "put_object") # {}

\* the objects of the bucket are kept as they are
ObjectsKept == \A k \in DOMAIN bucket : k \in DOMAIN bucket' /\ bucket'[k] = bucket[k]

\* C21: an aggregate that publishes adds one object to the bucket, under a
\* key no earlier aggregate published under, and leaves every object that is
\* there as it is; so the objects are as many as the aggregates that
\* published.
C21_SnapshotsNeverOverwritten ==
    [][AggregatePublished
           => /\ ObjectsKept
              /\ Cardinality(DOMAIN bucket') = Cardinality(DOMAIN bucket) + 1]_vars

\* C21 where it holds: an aggregate in a second in which none published
C21_InAnotherSecond ==
    [][(AggregatePublished /\ MetricsKey(now) \notin DOMAIN bucket)
           => /\ ObjectsKept
              /\ Cardinality(DOMAIN bucket') = Cardinality(DOMAIN bucket) + 1]_vars

\* C21 happens: aggregates published in two seconds, two objects
C21_Example ==
    /\ AggregateRequest
    /\ Cardinality(DOMAIN bucket) = 2

----------------------------------------------------------------------------
(* The two aggregations *)

\* the fields of a snapshot that carry the metrics
MetricFields ==
    {"total_sessions", "conversions", "conversion_rate", "total_revenue",
     "avg_cart_value"}

\* C22: over the same table, the snapshot GET /metrics returns and the one
\* the direct-action aggregate publishes have the same fields, with equal
\* total_sessions, conversions, conversion_rate, total_revenue and
\* avg_cart_value.
C22_SameAggregation ==
    ApiSnapshot
    => \A k \in DOMAIN bucket :
           /\ DOMAIN bucket[k] = DOMAIN resp.body
           /\ \A f \in MetricFields : bucket[k][f] = resp.body[f]

\* C22, the part that holds: the session counts agree, the conversion counts
\* agree under their two names, and the aggregate's rate rounded to two
\* decimals is the rate of GET /metrics
C22_CountsAgree ==
    ApiSnapshot
    => \A k \in DOMAIN bucket :
           /\ bucket[k].total_sessions = resp.body.total_sessions
           /\ bucket[k].total_conversions = resp.body.conversions
           /\ resp.body.conversion_rate
                  = IF bucket[k].total_sessions > 0
                    THEN Round2(bucket[k].conversion_rate) ELSE 0

\* C22 happens: both handlers aggregated a table of three records, one of
\* them converted
C22_Example ==
    /\ ApiSnapshot
    /\ resp.body.total_sessions = 3
    /\ resp.body.conversions = 1
    /\ DOMAIN bucket # {}

----------------------------------------------------------------------------
(* The conversion count *)

\* the records of the scanned batch whose converted is true
ConvertedRecords ==
    {i \in 1..Len(Batch) : "converted" \in DOMAIN Batch[i] /\ Batch[i].converted = TRUE}

----------------------------------------------------------------------------
(* Malformed records *)

MetricsRequest == ApiRequest /\ req.event = MetricsEvent

\* the records of the scanned batch whose cart_value is no number
MalformedRecords ==
    {i \in 1..Len(Batch) : ~IsNumber(Get(Batch[i], "cart_value", [N |-> 0]))}

\* C24: a metrics computation, of GET /metrics or of the direct-action
\* aggregate, whose scanned batch holds a record with a cart_value that is no
\* number is answered with an error that carries no metrics field, and
\* publishes nothing.
C24_MalformedAborts ==
    ((MetricsRequest \/ AggregateRequest) /\ Accepted(calls, "scan") # {}
         /\ MalformedRecords # {})
    => /\ ErrorResponse(500)
       /\ Accepted(calls, "put_object") = {}

\* C24 where it holds: GET /metrics; and no snapshot GET /metrics returns
\* leaves a record of the batch out
C24_QueryAborts ==
    /\ (MetricsRequest /\ Accepted(calls, "scan") # {} /\ MalformedRecords # {})
           => /\ ErrorResponse(500)
              /\ calls = <<Call("scan", TRUE)>>
    /\ ApiSnapshot
           => MalformedRecords = {} /\ resp.body.total_sessions = Len(Batch)

\* C24 happens: GET /metrics over a malformed record between two well-formed
\* ones
C24_Example ==
    /\ MetricsRequest
    /\ Len(Batch) = 3
    /\ MalformedRecords = {2}
    /\ ErrorResponse(500)

----------------------------------------------------------------------------
(* Invocations in progress at the same time *)

Returned(id) == running[id].phase = "returned"

\* the snapshot handler h computes from the first n records written
SnapshotOfWritten(h, n, t) ==
    IF h = "api"
    THEN ApiMetrics(SubSeq(store, 1, n), t)
    ELSE ProcMetrics(SubSeq(store, 1, n), t)

\* C25: whatever the interleaving of the invocations with each other and
\* with the writer, every invocation returns 200 with the snapshot of
\* records that were written when its scan returned, the latest of them
\* possibly left out, whatever the other invocation scanned or returned.
C25_ConcurrentSnapshots ==
    \A id \in Invocations :
        Returned(id)
        => LET r == running[id].response
           IN  /\ r.statusCode = 200
               /\ \E n \in 0..running[id].written :
                      r.body = SnapshotOfWritten(running[id].handler, n,
                                                 r.body.timestamp)

\* C25 happens: two invocations in progress at the same time returned
\* different snapshots, the first without a record that was written while
\* its scan ran
C25_Witness ==
    /\ Returned(1) /\ Returned(2)
    /\ running[1].handler = "api" /\ running[2].handler = "processor"
    /\ running[1].written = 2
    /\ running[1].response.body.total_sessions = 1
    /\ running[2].response.body.total_sessions = 2

----------------------------------------------------------------------------
(* Storage events *)

\* a storage event whose object was read
StorageRequest ==
    ProcRequest /\ HasS3Record(req.event) /\ Accepted(calls, "get_object") # {}

\* the lines of a content: each ends with a line feed, but for the last,
\* which may end with the content
LinesOf(data) ==
    Cardinality({i \in 1..Len(data) : data[i] = "\n"})
        + (IF data # <<>> /\ data[Len(data)] # "\n" THEN 1 ELSE 0)

\* C26: for a storage event whose object is a header line followed by n data
\* lines, the processor returns 200 and reports n records.
C26_RecordCount ==
    (StorageRequest /\ LinesOf(req.data) >= 1)
    => /\ resp.statusCode = 200
       /\ resp.body.message.processed = LinesOf(req.data) - 1

\* C26 where it holds: an object whose last line has no line feed
C26_WithoutFinalLineFeed ==
    (StorageRequest /\ req.data[Len(req.data)] # "\n")
    => /\ resp.statusCode = 200
       /\ resp.body.message.processed = LinesOf(req.data) - 1

\* C26 happens: a header and one data line, the last without line feed
C26_Example ==
    /\ StorageRequest
    /\ req.data = <<"h", "\n", "r">>
    /\ resp.body.message.processed = 1

----------------------------------------------------------------------------
(* The trigger and the aggregate it dispatched *)

\* dispatch n is accepted and not yet delivered
Pending(n) == \E i \in 1..Len(pending) : pending[i].requestId = n

\* the dispatches queued under the requestId the last response carries
Dispatched ==
    {i \in 1..Len(pending) : pending[i].requestId = resp.body.requestId}

\* C27: when POST /trigger-processing has answered 202, one invocation of
\* the processor with payload {action: "aggregate"} is queued under the
\* requestId of the answer, not yet delivered; every queued invocation is in
\* the end delivered, and its delivery publishes exactly one snapshot.
C27_TriggerEventuallyPublishes ==
    /\ []((TriggerRequest /\ resp.statusCode = 202)
              => /\ Cardinality(Dispatched) = 1
                 /\ \A i \in Dispatched : pending[i].payload = [action |-> "aggregate"])
    /\ \A n \in 1..MaxDispatch :
           Pending(n) ~> ( /\ ~Pending(n)
                           /\ dispatched >= n
                           /\ AggregateRequest
                           /\ Cardinality(Accepted(calls, "put_object")) = 1
                           /\ Cardinality(Puts) = 1
                           /\ MetricsKey(resp.body.timestamp) \in DOMAIN bucket )

\* C27 happens: a dispatch was accepted, delivered, and its snapshot
\* published
C27_Witness ==
    /\ dispatched = 1
    /\ pending = <<>>
    /\ AggregateRequest
    /\ req.data = <<>>
    /\ DOMAIN bucket # {}

----------------------------------------------------------------------------
(* The decoding of the processor's event *)

\* the positions of the event's Records that are storage entries
S3Entries ==
    IF "Records" \in DOMAIN req.event
    THEN {i \in 1..Len(req.event.Records) : "s3" \in DOMAIN req.event.Records[i]}
    ELSE {}

AggregateAction == "action" \in DOMAIN req.event /\ req.event.action = "aggregate"

CallsMade == {calls[i].call : i \in 1..Len(calls)}

\* C28: an invocation of the processor has one outcome.  With a storage
\* entry among Records, the object of the first such entry is read, once,
\* and reported, with no scan and nothing published, whatever action says;
\* else with action "aggregate" the aggregation runs; else the answer is 200
\* "Data processor ready" with no outside call.
C28_OneOutcome ==
    ProcRequest
    => IF S3Entries # {}
       THEN /\ Len(calls) = 1 /\ CallsMade = {"get_object"}
            /\ calls[1].ok
                   => /\ resp.statusCode = 200
                      /\ \E i \in S3Entries :
                             /\ \A j \in S3Entries : i <= j
                             /\ resp.body.message.key
                                    = req.event.Records[i].s3.object.key
       ELSE IF AggregateAction
       THEN /\ CallsMade \subseteq {"scan", "put_object"}
            /\ req.env.tableOk => Cardinality(StoreCalls) = 1
            /\ req.env = AllOk
                   => /\ resp.statusCode = 200
                      /\ "total_sessions" \in DOMAIN resp.body
                      /\ Cardinality(Accepted(calls, "put_object")) = 1
       ELSE /\ resp = [statusCode |-> 200,
                       body |-> [message |-> "Data processor ready"]]
            /\ calls = <<>>

\* C28 happens: a storage entry after another entry and before a second
\* storage entry was processed
C28_Witness ==
    /\ ProcRequest
    /\ Cardinality(S3Entries) = 2
    /\ 1 \notin S3Entries
    /\ resp.statusCode = 200
    /\ resp.body.message.key = "b.csv"

\* C28 happens: a storage entry took precedence over action "aggregate"
C28_WitnessPrecedence ==
    /\ ProcRequest
    /\ S3Entries # {}
    /\ AggregateAction
    /\ resp.statusCode = 200
    /\ store # <<>>

\* C28 happens: Records without a storage entry, action "aggregate"
C28_WitnessFallThrough ==
    /\ ProcRequest
    /\ "Records" \in DOMAIN req.event
    /\ S3Entries = {}
    /\ AggregateAction
    /\ resp.statusCode = 200
    /\ DOMAIN bucket # {}

-----------------------------------------------------------------------------
\* The bucket setup script: S3Manager.create_bucket

\* deepest nesting of create_bucket the interpreter allows before it raises
\* RecursionError
RecursionLimit == 3

\* last day of the calendar the runs are checked on
MaxDay == 2

Days == 1..MaxDay

\* the last four characters of AWS_ACCOUNT_ID, 'demo' when it is not set
AccountSuffixes == {"demo", "9012"}

\* values random.randint(1000, 9999) can return
RandomSuffixes == {1000, 9999}

\* f"customer-analytics-{timestamp}-{account[-4:]}"
GeneratedName(day, account) ==
    [day |-> day, account |-> account, suffixes |-> <<>>]

\* f"{self.bucket_name}-{random.randint(1000,9999)}"
AlternativeName(name, r) ==
    [name EXCEPT !.suffixes = Append(@, r)]

\* what s3_client.create_bucket and the two calls after it can end with for
\* a name: a name another account holds is refused with BucketAlreadyExists
BucketOutcomes(name, taken) ==
    IF name \in taken THEN {"BucketAlreadyExists"}
    ELSE {"created", "BucketAlreadyOwnedByYou", "AccessDenied"}

BucketRuns ==
    [pc : {"enter"}, day : Days, account : AccountSuffixes,
     taken : SUBSET {GeneratedName(d, a) : d \in Days, a \in AccountSuffixes},
     bucket_name : {None}, depth : {0}, requests : {<<>>}, result : {"pending"}]

\* the first two statements of create_bucket: the name is computed from the
\* date and the account, whatever self.bucket_name held
CreateBucketEnter ==
    /\ script.pc = "enter"
    /\ script' =
          IF script.depth >= RecursionLimit
          THEN [script EXCEPT !.pc = "done", !.result = "RecursionError"]
          ELSE [script EXCEPT !.pc = "request",
                              !.bucket_name = GeneratedName(script.day, script.account)]
    /\ UNCHANGED <<store, now, req, resp, calls, bucket, pending, dispatched,
                   prevMetrics, rateIn, rateOut, running>>

\* the try block and its handlers
CreateBucketRequest(outcome, r) ==
    /\ script.pc = "request"
    /\ outcome \in BucketOutcomes(script.bucket_name, script.taken)
    /\ LET asked == Append(script.requests,
                           [name |-> script.bucket_name, outcome |-> outcome])
       IN  script' =
              IF outcome \in {"created", "BucketAlreadyOwnedByYou"}
              THEN [script EXCEPT !.pc = "done", !.result = "True",
                                  !.requests = asked]
              ELSE IF outcome = "BucketAlreadyExists"
              THEN [script EXCEPT !.pc = "enter", !.depth = @ + 1,
                                  !.bucket_name = AlternativeName(@, r),
                                  !.requests = asked]
              ELSE [script EXCEPT !.pc = "done", !.result = "False",
                                  !.requests = asked]
    /\ UNCHANGED <<store, now, req, resp, calls, bucket, pending, dispatched,
                   prevMetrics, rateIn, rateOut, running>>

\* the date changes while the script runs
Midnight ==
    /\ script.pc # "done"
    /\ script.day < MaxDay
    /\ script' = [script EXCEPT !.day = @ + 1]
    /\ UNCHANGED <<store, now, req, resp, calls, bucket, pending, dispatched,
                   prevMetrics, rateIn, rateOut, running>>

InitBucket ==
    /\ store = <<>>
    /\ now = 0
    /\ req = None
    /\ resp = None
    /\ calls = <<>>
    /\ bucket = <<>>
    /\ pending = <<>>
    /\ dispatched = 0
    /\ prevMetrics = None
    /\ rateIn = None
    /\ rateOut = None
    /\ running = NoneRunning
    /\ script \in BucketRuns

NextBucket ==
    \/ CreateBucketEnter
    \/ \E r \in RandomSuffixes :
          \E outcome \in {"created", "BucketAlreadyOwnedByYou",
                          "BucketAlreadyExists", "AccessDenied"} :
             CreateBucketRequest(outcome, r)
    \/ Midnight

SpecBucket == InitBucket /\ [][NextBucket]_vars

\* the requests a run has made, in order
Requests == script.requests

Rejected(i) == Requests[i].outcome = "BucketAlreadyExists"

\* C29: create_bucket ends with True or False, and a name that was refused
\* with BucketAlreadyExists is never requested again: the request after the
\* refusal asks for another name
C29_RetryWithAnotherName ==
    /\ script.result \in {"pending", "True", "False"}
    /\ \A i \in 1..Len(Requests) : \A j \in 1..Len(Requests) :
          i < j /\ Rejected(i) => Requests[j].name # Requests[i].name

\* where the statement holds: a run whose name is not held by another account
\* makes one request and ends with True or False
C29_FreeNameEndsAtOnce ==
    script.pc = "done" /\ (\A i \in 1..Len(Requests) : ~Rejected(i))
        => Len(Requests) = 1 /\ script.result \in {"True", "False"}

\* a refused name was requested again
C29_Example ==
    /\ Len(Requests) >= 2
    /\ Rejected(1)
    /\ Requests[2].name = Requests[1].name
    /\ script.bucket_name = Requests[1].name

-----------------------------------------------------------------------------
\* The .env update of the setup scripts: save_config

\* most lines of the .env file the scripts start from
MaxEnvLines == 2

\* most runs of save_config on one .env file
MaxRuns == 2

\* a text is a sequence of pieces: a key with its '=' sign, a value, or the
\* line feed
LF == "\n"

Managers == {"dynamodb", "s3", "rds"}

\* f.readlines(): the lines of a text, each with its line feed; the last one
\* has none when the text does not end with one
ReadLines(text) ==
    LET Split[i \in 0..Len(text)] ==
            IF i = 0 THEN [lines |-> <<>>, line |-> <<>>]
            ELSE LET p == Split[i - 1]
                 IN  IF text[i] = LF
                     THEN [lines |-> Append(p.lines, Append(p.line, LF)),
                           line |-> <<>>]
                     ELSE [p EXCEPT !.line = Append(@, text[i])]
        end == Split[Len(text)]
    IN  IF end.line = <<>> THEN end.lines ELSE Append(end.lines, end.line)

\* f.writelines(lines): the strings one after another, nothing added
RECURSIVE WriteLines(_)
WriteLines(lines) ==
    IF lines = <<>> THEN <<>> ELSE Head(lines) \o WriteLines(Tail(lines))

\* line.startswith(f'{key}=')
StartsWith(line, key) == line # <<>> /\ line[1] = key

\* the keys a manager writes, in the order it writes them, each with the
\* string it appends when no line starts with the key
EnvUpdates(manager) ==
    IF manager = "dynamodb"
    THEN <<[key |-> "DYNAMODB_TABLE=", added |-> <<"DYNAMODB_TABLE=", "new", LF>>]>>
    ELSE IF manager = "s3"
    THEN <<[key |-> "S3_BUCKET_NAME=", added |-> <<LF, "S3_BUCKET_NAME=", "new", LF>>]>>
    ELSE [i \in 1..5 |->
             LET key == <<"RDS_HOST=", "RDS_PORT=", "RDS_DATABASE=",
                          "RDS_USERNAME=", "RDS_PASSWORD=">>[i]
             IN  [key |-> key, added |-> <<key, "new", LF>>]]

\* the loop over the lines for one key: the first line that starts with the
\* key is replaced, and when there is none the string is appended
UpdateKey(lines, update) ==
    LET found == {i \in 1..Len(lines) : StartsWith(lines[i], update.key)}
    IN  IF found # {}
        THEN LET i == CHOOSE i \in found : \A j \in found : i <= j
             IN  [lines EXCEPT ![i] = <<update.key, "new", LF>>]
        ELSE Append(lines, update.added)

RECURSIVE UpdateKeys(_, _)
UpdateKeys(lines, updates) ==
    IF updates = <<>> THEN lines
    ELSE UpdateKeys(UpdateKey(lines, Head(updates)), Tail(updates))

\* the text save_config leaves in an existing .env file
EnvAfter(manager, text) ==
    WriteLines(UpdateKeys(ReadLines(text), EnvUpdates(manager)))

\* the keys a .env file can hold before the scripts run
EnvKeys == {"AWS_REGION=", "DYNAMODB_TABLE=", "S3_BUCKET_NAME=", "RDS_HOST="}

\* .env files with one line per key, the last line with or without its line
\* feed
EnvTexts ==
    LET Entries == UNION {[1..n -> EnvKeys] : n \in 0..MaxEnvLines}
        OnePerKey == {e \in Entries :
                         \A i \in DOMAIN e : \A j \in DOMAIN e :
                            e[i] = e[j] => i = j}
        Text(e) == WriteLines([i \in DOMAIN e |-> <<e[i], "old", LF>>])
    IN  {Text(e) : e \in OnePerKey}
        \cup {SubSeq(Text(e), 1, Len(Text(e)) - 1) : e \in OnePerKey \ {<<>>}}

\* one run of save_config of a manager
SaveConfig(manager) ==
    /\ Len(script.history) < MaxRuns
    /\ LET after == IF script.exists THEN EnvAfter(manager, script.env)
                    ELSE script.env
       IN  script' = [script EXCEPT
                         !.env = after,
                         !.history = Append(@, [manager |-> manager,
                                                exists |-> script.exists,
                                                before |-> script.env,
                                                after |-> after])]
    /\ UNCHANGED <<store, now, req, resp, calls, bucket, pending, dispatched,
                   prevMetrics, rateIn, rateOut, running>>

InitEnv ==
    /\ store = <<>>
    /\ now = 0
    /\ req = None
    /\ resp = None
    /\ calls = <<>>
    /\ bucket = <<>>
    /\ pending = <<>>
    /\ dispatched = 0
    /\ prevMetrics = None
    /\ rateIn = None
    /\ rateOut = None
    /\ running = NoneRunning
    /\ script \in {[exists |-> TRUE, env |-> text, history |-> <<>>] :
                      text \in EnvTexts}
                  \cup {[exists |-> FALSE, env |-> <<>>, history |-> <<>>]}

NextEnv ==
    \/ SaveConfig("dynamodb")
    \/ SaveConfig("s3")
    \/ SaveConfig("rds")

SpecEnv == InitEnv /\ [][NextEnv]_vars

\* the runs of save_config so far on an existing .env file
Runs == {i \in 1..Len(script.history) : script.history[i].exists}

ManagerKeys(manager) ==
    {EnvUpdates(manager)[i].key : i \in DOMAIN EnvUpdates(manager)}

\* a line without its line feed
Content(line) == SelectSeq(line, LAMBDA piece : piece # LF)

\* the lines of a text that hold other keys than the manager's, without their
\* line feeds
OtherLines(manager, text) ==
    LET lines == ReadLines(text)
        kept == SelectSeq(lines, LAMBDA line :
                    /\ Content(line) # <<>>
                    /\ \A key \in ManagerKeys(manager) : ~StartsWith(line, key))
    IN  [i \in DOMAIN kept |-> Content(kept[i])]

\* exactly one line starts with the key, and it holds the new value
OneLinePerKey(manager, text) ==
    LET lines == ReadLines(text)
    IN  \A key \in ManagerKeys(manager) :
           \E i \in DOMAIN lines :
              /\ lines[i] = <<key, "new", LF>>
              /\ \A j \in DOMAIN lines : StartsWith(lines[j], key) => j = i

EndsWithLineFeed(text) == text = <<>> \/ text[Len(text)] = LF

Updated(run) ==
    /\ OneLinePerKey(run.manager, run.after)
    /\ OtherLines(run.manager, run.after) = OtherLines(run.manager, run.before)

Repeated(i) ==
    /\ i + 1 \in Runs
    /\ script.history[i + 1].manager = script.history[i].manager

\* C30: after save_config the .env file has exactly one line that starts with
\* each key of the manager, holding the new value, the lines for other keys
\* are what they were, and a second run of the same save_config leaves the
\* file identical
C30_EnvUpdate ==
    \A i \in Runs :
       /\ Updated(script.history[i])
       /\ Repeated(i) => script.history[i + 1].after = script.history[i].after

\* where the statement holds: a .env file that is empty or ends with a line
\* feed, and every .env file for the bucket script
C30_AfterLineFeed ==
    \A i \in Runs :
       EndsWithLineFeed(script.history[i].before)
           \/ script.history[i].manager = "s3"
       => /\ Updated(script.history[i])
          /\ Repeated(i) => script.history[i + 1].after = script.history[i].after

\* the key was absent from a file whose last line has no line feed, and the
\* table script ran twice: the first run joined the key to the last line, the
\* second added a line
C30_Example ==
    /\ Len(script.history) = 2
    /\ script.history[1].manager = "dynamodb"
    /\ script.history[2].manager = "dynamodb"
    /\ script.history[1].before = <<"AWS_REGION=", "old">>
    /\ script.history[1].after =
          <<"AWS_REGION=", "old", "DYNAMODB_TABLE=", "new", LF>>
    /\ script.history[2].after # script.history[1].after

====
